---- MODULE Spec2Model ----
(***************************************************************************)
(* Model of src/config_file.rs (godot-package-manager client):             *)
(* ConfigFile construction (new / from_json), the recursive tree walker    *)
(* (for_each / collect) and the lockfile builder (lock).                   *)
(*                                                                         *)
(* Strings are sequences of byte values, so that String's ordering         *)
(* (lexicographic on bytes) and is_empty() are computed, not assumed.      *)
(***************************************************************************)
EXTENDS Naturals, Sequences, FiniteSets

VARIABLES
    packages,   \* ConfigFile.packages: Vec<Package>
    op,         \* the operation performed last
    contents,   \* the manifest text, as what each parser makes of it
    status,     \* how the last constructor call ended: none / ok / panic / err
    attempts,   \* the parsers the last constructor call invoked, in order
    prev,       \* the previous successful ConfigFile::new: its mapping and packages
    calls,      \* the callback invocations of the last for_each, as node paths
    collected,  \* the value returned by the last collect
    lockRet,    \* how the last lock ended, what it serialized, what it hashed
    hashFails   \* flatten positions whose get_integrity() fails during the last lock

vars == <<packages, op, contents, status, attempts, prev, calls, collected,
          lockRet, hashFails>>

(***************************************************************************)
(* Bounds                                                                  *)
(***************************************************************************)
\* largest number of entries of a parsed name -> version mapping
MaxEntries == 2
\* largest number of nodes of a package forest that is walked
MaxNodes == 3
\* largest number of nodes of a package forest that is locked
MaxLockNodes == 2

\* the (name, version) entries a manifest may hold
Entries == {<<<<1>>, <<1>>>>, <<<<1>>, <<2>>>>, <<<<1, 2>>, <<1>>>>, <<<<2>>, <<1>>>>}
Names == {e[1] : e \in Entries}
TreeNames == {<<1>>, <<2>>}
TreeVersion == <<1>>
EmptyString == <<>>
\* an integrity value recorded before lock runs
StoredIntegrity == <<9>>

(***************************************************************************)
(* Strings and the Package entity                                          *)
(***************************************************************************)
RECURSIVE StrLess(_, _)
StrLess(a, b) ==
    IF Len(b) = 0 THEN FALSE
    ELSE IF Len(a) = 0 THEN TRUE
    ELSE IF Head(a) # Head(b) THEN Head(a) < Head(b)
    ELSE StrLess(Tail(a), Tail(b))

\* Package's total order: by name, then version
PkgLess(p, q) ==
    \/ StrLess(p.name, q.name)
    \/ p.name = q.name /\ StrLess(p.version, q.version)

Package_new(name, version) ==
    [name |-> name, version |-> version, dependencies |-> <<>>,
     installed |-> FALSE, integrity |-> EmptyString]

\* Display: name@version
to_string(p) == p.name \o <<64>> \o p.version

is_installed(p) == p.installed

has_deps(p) == Len(p.dependencies) > 0

\* the value a successful get_integrity() returns for p
get_integrity(p) == <<7>> \o p.name \o p.version

\* download(): afterwards the package is installed
download(p) == [p EXCEPT !.installed = TRUE]

\* Serialize for Package: a record of name, version and integrity
Serialize(p) == [name |-> p.name, version |-> p.version, integrity |-> p.integrity]

(***************************************************************************)
(* Vec::sort with Package's order (stable)                                 *)
(***************************************************************************)
RECURSIVE Insert(_, _)
Insert(s, p) ==
    IF Len(s) = 0 THEN <<p>>
    ELSE IF PkgLess(p, Head(s)) THEN <<p>> \o s
    ELSE <<Head(s)>> \o Insert(Tail(s), p)

RECURSIVE sort(_)
sort(s) ==
    IF Len(s) = 0 THEN <<>>
    ELSE Insert(sort(SubSeq(s, 1, Len(s) - 1)), s[Len(s)])

(***************************************************************************)
(* ConfigWrapper and the parsers                                           *)
(***************************************************************************)
\* a HashMap<String, String>: a set of (name, version) entries with distinct names
Maps ==
    {m \in SUBSET Entries :
        /\ Cardinality(m) <= MaxEntries
        /\ \A e1, e2 \in m : e1[1] = e2[1] => e1 = e2}

\* what a parser makes of a text: Err, or Ok(ConfigWrapper)
ParseErr == [ok |-> FALSE, packages |-> {}]
ParseResults == {ParseErr} \cup {[ok |-> TRUE, packages |-> m] : m \in Maps}

\* the orders in which a HashMap may hand out its keys
HashOrders ==
    {s \in [1..Cardinality(Names) -> Names] : \A i, j \in 1..Cardinality(Names) : s[i] = s[j] => i = j}

\* HashMap::into_iter: the entries, in the order the hasher fixes
into_iter(m, hashOrder) ==
    LET keys == SelectSeq(hashOrder, LAMBDA n : \E e \in m : e[1] = n)
    IN  [i \in 1..Len(keys) |-> CHOOSE e \in m : e[1] = keys[i]]

\* impl From<ConfigWrapper> for ConfigFile
From(w, hashOrder) ==
    LET it == into_iter(w.packages, hashOrder)
    IN  [i \in 1..Len(it) |-> Package_new(it[i][1], it[i][2])]

\* deser_hjson / serde_yaml / toml / serde_json ::from_str::<ConfigWrapper>
from_str(format, text) == text[format]

\* ConfigFile::new without the trailing sort
new_unsorted(text, hashOrder) ==
    IF from_str("hjson", text).ok
    THEN [status |-> "ok", attempts |-> <<"hjson">>,
          packages |-> From(from_str("hjson", text), hashOrder)]
    ELSE IF from_str("yaml", text).ok
    THEN [status |-> "ok", attempts |-> <<"hjson", "yaml">>,
          packages |-> From(from_str("yaml", text), hashOrder)]
    ELSE IF from_str("toml", text).ok
    THEN [status |-> "ok", attempts |-> <<"hjson", "yaml", "toml">>,
          packages |-> From(from_str("toml", text), hashOrder)]
    ELSE [status |-> "panic", attempts |-> <<"hjson", "yaml", "toml">>,
          packages |-> <<>>]

\* ConfigFile::new trying yaml before hjson
new_yaml_first(text, hashOrder) ==
    IF from_str("yaml", text).ok
    THEN [status |-> "ok", attempts |-> <<"yaml">>,
          packages |-> sort(From(from_str("yaml", text), hashOrder))]
    ELSE IF from_str("hjson", text).ok
    THEN [status |-> "ok", attempts |-> <<"yaml", "hjson">>,
          packages |-> sort(From(from_str("hjson", text), hashOrder))]
    ELSE IF from_str("toml", text).ok
    THEN [status |-> "ok", attempts |-> <<"yaml", "hjson", "toml">>,
          packages |-> sort(From(from_str("toml", text), hashOrder))]
    ELSE [status |-> "panic", attempts |-> <<"yaml", "hjson", "toml">>,
          packages |-> <<>>]

\* ConfigFile::new returning an empty ConfigFile where the code panics
new_no_panic(text, hashOrder) ==
    IF from_str("hjson", text).ok
    THEN [status |-> "ok", attempts |-> <<"hjson">>,
          packages |-> sort(From(from_str("hjson", text), hashOrder))]
    ELSE IF from_str("yaml", text).ok
    THEN [status |-> "ok", attempts |-> <<"hjson", "yaml">>,
          packages |-> sort(From(from_str("yaml", text), hashOrder))]
    ELSE IF from_str("toml", text).ok
    THEN [status |-> "ok", attempts |-> <<"hjson", "yaml", "toml">>,
          packages |-> sort(From(from_str("toml", text), hashOrder))]
    ELSE [status |-> "ok", attempts |-> <<"hjson", "yaml", "toml">>,
          packages |-> <<>>]

\* ConfigFile::new
new(text, hashOrder) ==
    IF from_str("hjson", text).ok
    THEN [status |-> "ok", attempts |-> <<"hjson">>,
          packages |-> sort(From(from_str("hjson", text), hashOrder))]
    ELSE IF from_str("yaml", text).ok
    THEN [status |-> "ok", attempts |-> <<"hjson", "yaml">>,
          packages |-> sort(From(from_str("yaml", text), hashOrder))]
    ELSE IF from_str("toml", text).ok
    THEN [status |-> "ok", attempts |-> <<"hjson", "yaml", "toml">>,
          packages |-> sort(From(from_str("toml", text), hashOrder))]
    ELSE [status |-> "panic", attempts |-> <<"hjson", "yaml", "toml">>,
          packages |-> <<>>]

\* ConfigFile::from_json
from_json(text, hashOrder) ==
    IF from_str("json", text).ok
    THEN [status |-> "ok", attempts |-> <<"json">>,
          packages |-> From(from_str("json", text), hashOrder)]
    ELSE [status |-> "err", attempts |-> <<"json">>, packages |-> <<>>]

(***************************************************************************)
(* Tree walker                                                             *)
(***************************************************************************)
\* what the callbacks accumulate: the nodes they were invoked on (as paths of
\* sibling indices from the top-level list) and the Vec<Package> they push to
NoAcc == [paths |-> <<>>, pkgs |-> <<>>]

\* the callbacks handed to for_each: |p| .. (no mutation), |p| p.download(),
\* and collect's |p| pkgs.push(p.clone())
cb(kind, p, path, acc) ==
    IF kind = "download"
    THEN [p |-> download(p), acc |-> [acc EXCEPT !.paths = Append(@, path)]]
    ELSE IF kind = "push_clone"
    THEN [p |-> p, acc |-> [paths |-> Append(acc.paths, path), pkgs |-> Append(acc.pkgs, p)]]
    ELSE [p |-> p, acc |-> [acc EXCEPT !.paths = Append(@, path)]]

\* inner with the recursion into the dependencies before the callback
RECURSIVE inner_post(_, _, _, _, _)
inner_post(pkgs, i, path, kind, acc) ==
    IF i > Len(pkgs) THEN [pkgs |-> pkgs, acc |-> acc]
    ELSE LET here == Append(path, i)
             below == IF has_deps(pkgs[i])
                      THEN inner_post(pkgs[i].dependencies, 1, here, kind, acc)
                      ELSE [pkgs |-> pkgs[i].dependencies, acc |-> acc]
             called == cb(kind, [pkgs[i] EXCEPT !.dependencies = below.pkgs], here, below.acc)
         IN  inner_post([pkgs EXCEPT ![i] = called.p], i + 1, path, kind, called.acc)

\* fn inner: the loop `for p in pkgs` from its i-th element on
RECURSIVE inner(_, _, _, _, _)
inner(pkgs, i, path, kind, acc) ==
    IF i > Len(pkgs) THEN [pkgs |-> pkgs, acc |-> acc]
    ELSE LET here == Append(path, i)
             called == cb(kind, pkgs[i], here, acc)
             below == IF has_deps(called.p)
                      THEN inner(called.p.dependencies, 1, here, kind, called.acc)
                      ELSE [pkgs |-> called.p.dependencies, acc |-> called.acc]
             p == [called.p EXCEPT !.dependencies = below.pkgs]
         IN  inner([pkgs EXCEPT ![i] = p], i + 1, path, kind, below.acc)

\* ConfigFile::_for_each
_for_each(pkgs, kind) == inner(pkgs, 1, <<>>, kind, NoAcc)

\* ConfigFile::for_each
for_each(self, kind) == _for_each(self, kind)

\* drop the packages whose name and version occurred earlier
RECURSIVE Dedup(_)
Dedup(s) ==
    IF Len(s) = 0 THEN <<>>
    ELSE LET front == Dedup(SubSeq(s, 1, Len(s) - 1))
             last == s[Len(s)]
         IN  IF \E k \in 1..Len(front) :
                    front[k].name = last.name /\ front[k].version = last.version
             THEN front ELSE Append(front, last)

\* collect skipping packages already collected
collect_dedup(self) ==
    LET r == for_each(self, "push_clone")
    IN  [self |-> r.pkgs, ret |-> Dedup(r.acc.pkgs)]

\* ConfigFile::collect
collect(self) ==
    LET r == for_each(self, "push_clone")
    IN  [self |-> r.pkgs, ret |-> r.acc.pkgs]

(***************************************************************************)
(* Lockfile builder                                                        *)
(***************************************************************************)
\* the collected packages, each with its position in the collected Vec
Indexed(s) == [k \in 1..Len(s) |-> [idx |-> k, p |-> s[k]]]

\* the closure taking a package whose get_integrity() failed out of the lockfile
RECURSIVE lock_loop_skip(_, _, _, _, _)
lock_loop_skip(items, i, fails, pkgs, hashed) ==
    IF i > Len(items) THEN [status |-> "ok", pkgs |-> pkgs, hashed |-> hashed]
    ELSE LET p == items[i].p
         IN  IF Len(p.integrity) = 0
             THEN IF items[i].idx \in fails
                  THEN lock_loop_skip(items, i + 1, fails, pkgs,
                                      Append(hashed, items[i].idx))
                  ELSE lock_loop_skip(items, i + 1, fails,
                                      Append(pkgs, [p EXCEPT !.integrity = get_integrity(p)]),
                                      Append(hashed, items[i].idx))
             ELSE lock_loop_skip(items, i + 1, fails, Append(pkgs, p), hashed)

\* the closure computing the integrity of every package it is handed
RECURSIVE lock_loop_always_hash(_, _, _, _, _)
lock_loop_always_hash(items, i, fails, pkgs, hashed) ==
    IF i > Len(items) THEN [status |-> "ok", pkgs |-> pkgs, hashed |-> hashed]
    ELSE LET p == items[i].p
         IN  IF items[i].idx \in fails
             THEN [status |-> "panic", pkgs |-> <<>>,
                   hashed |-> Append(hashed, items[i].idx)]
             ELSE lock_loop_always_hash(items, i + 1, fails,
                                        Append(pkgs, [p EXCEPT !.integrity = get_integrity(p)]),
                                        Append(hashed, items[i].idx))

\* the closure of lock's for_each over the filtered packages, from the i-th on;
\* expect() panics when get_integrity() returns Err
RECURSIVE lock_loop(_, _, _, _, _)
lock_loop(items, i, fails, pkgs, hashed) ==
    IF i > Len(items) THEN [status |-> "ok", pkgs |-> pkgs, hashed |-> hashed]
    ELSE LET p == items[i].p
         IN  IF Len(p.integrity) = 0
             THEN IF items[i].idx \in fails
                  THEN [status |-> "panic", pkgs |-> <<>>,
                        hashed |-> Append(hashed, items[i].idx)]
                  ELSE lock_loop(items, i + 1, fails,
                                 Append(pkgs, [p EXCEPT !.integrity = get_integrity(p)]),
                                 Append(hashed, items[i].idx))
             ELSE lock_loop(items, i + 1, fails, Append(pkgs, p), hashed)

\* serde_json::to_string_pretty(&pkgs)
to_string_pretty(pkgs) == [k \in 1..Len(pkgs) |-> Serialize(pkgs[k])]

\* lock without the is_installed filter
lock_no_filter(self, fails) ==
    LET c == collect(self)
        r == lock_loop(Indexed(c.ret), 1, fails, <<>>, <<>>)
    IN  [self |-> c.self, status |-> r.status, hashed |-> r.hashed,
         text |-> IF r.status = "ok" THEN to_string_pretty(r.pkgs) ELSE <<>>]

\* lock storing the computed integrity in the top-level packages of the ConfigFile
lock_write_back(self, fails) ==
    LET c == collect(self)
        items == SelectSeq(Indexed(c.ret), LAMBDA x : is_installed(x.p))
        r == lock_loop(items, 1, fails, <<>>, <<>>)
    IN  [self |-> [k \in 1..Len(c.self) |->
                      IF r.status = "ok" /\ is_installed(c.self[k]) /\ Len(c.self[k].integrity) = 0
                      THEN [c.self[k] EXCEPT !.integrity = get_integrity(c.self[k])]
                      ELSE c.self[k]],
         status |-> r.status, hashed |-> r.hashed,
         text |-> IF r.status = "ok" THEN to_string_pretty(r.pkgs) ELSE <<>>]

\* ConfigFile::lock
lock(self, fails) ==
    LET c == collect(self)
        items == SelectSeq(Indexed(c.ret), LAMBDA x : is_installed(x.p))
        r == lock_loop(items, 1, fails, <<>>, <<>>)
    IN  [self |-> c.self, status |-> r.status, hashed |-> r.hashed,
         text |-> IF r.status = "ok" THEN to_string_pretty(r.pkgs) ELSE <<>>]

(***************************************************************************)
(* The forests a ConfigFile may hold                                       *)
(***************************************************************************)
\* the forests of n nodes whose nodes take their integrity field from integrities
RECURSIVE ForestsOfSize(_, _)
ForestsOfSize(n, integrities) ==
    IF n = 0 THEN {<<>>}
    ELSE UNION {
        {<<[name |-> nm, version |-> TreeVersion, dependencies |-> d,
            installed |-> ins, integrity |-> ig]>> \o rest :
            nm \in TreeNames, ins \in BOOLEAN, ig \in integrities,
            d \in ForestsOfSize(k - 1, integrities),
            rest \in ForestsOfSize(n - k, integrities)} : k \in 1..n}

\* forests to walk: integrity not yet filled in
WalkForests == UNION {ForestsOfSize(n, {EmptyString}) : n \in 0..MaxNodes}

\* forests to lock: some integrity values already recorded
LockForests ==
    UNION {ForestsOfSize(n, {EmptyString, StoredIntegrity}) : n \in 0..MaxLockNodes}

RECURSIVE Size(_)
Size(pkgs) ==
    IF Len(pkgs) = 0 THEN 0
    ELSE 1 + Size(Head(pkgs).dependencies) + Size(Tail(pkgs))

(***************************************************************************)
(* State machine                                                           *)
(***************************************************************************)
NoText == [hjson |-> ParseErr, yaml |-> ParseErr, toml |-> ParseErr, json |-> ParseErr]
NoPrev == [valid |-> FALSE, entries |-> {}, attempts |-> <<>>, packages |-> <<>>]
NoCalls == [valid |-> FALSE, paths |-> <<>>]
NoCollected == [valid |-> FALSE, pkgs |-> <<>>]
NoLock == [status |-> "none", text |-> <<>>, hashed |-> <<>>]

\* #[derive(Default)] ConfigFile, nothing called yet
Idle ==
    /\ op = "none"
    /\ contents = NoText
    /\ status = "none"
    /\ attempts = <<>>
    /\ calls = NoCalls
    /\ collected = NoCollected
    /\ lockRet = NoLock
    /\ hashFails = {}

InitLoad ==
    /\ Idle
    /\ packages = <<>>
    /\ prev = NoPrev

Init ==
    /\ Idle
    /\ packages \in WalkForests
    /\ prev = NoPrev

InitLock ==
    /\ Idle
    /\ packages \in LockForests
    /\ prev = NoPrev

TreeUnchanged == UNCHANGED <<calls, collected, lockRet, hashFails>>
LoadUnchanged == UNCHANGED <<contents, status, attempts, prev>>

\* the mapping the parsers handed to the conversion, read back from the text
Accepted(text) ==
    IF text.hjson.ok THEN text.hjson.packages
    ELSE IF text.yaml.ok THEN text.yaml.packages
    ELSE text.toml.packages

New ==
    /\ status = "none"
    /\ \E h \in ParseResults, y \in ParseResults, t \in ParseResults, hashOrder \in HashOrders :
          LET text == [NoText EXCEPT !.hjson = h, !.yaml = y, !.toml = t]
              r == new(text, hashOrder)
          IN  /\ op' = "new"
              /\ contents' = text
              /\ status' = r.status
              /\ attempts' = r.attempts
              /\ packages' = r.packages
              /\ UNCHANGED prev
              /\ TreeUnchanged

FromJson ==
    /\ status = "none"
    /\ \E j \in ParseResults, hashOrder \in HashOrders :
          LET text == [NoText EXCEPT !.json = j]
              r == from_json(text, hashOrder)
          IN  /\ op' = "from_json"
              /\ contents' = text
              /\ status' = r.status
              /\ attempts' = r.attempts
              /\ packages' = r.packages
              /\ UNCHANGED prev
              /\ TreeUnchanged

\* the caller drops the value the constructor returned (or unwinds from its panic)
Drop ==
    /\ status # "none"
    /\ prev' = IF op = "new" /\ status = "ok"
               THEN [valid |-> TRUE, entries |-> Accepted(contents), attempts |-> attempts,
                     packages |-> packages]
               ELSE prev
    /\ op' = "none"
    /\ contents' = NoText
    /\ status' = "none"
    /\ attempts' = <<>>
    /\ packages' = <<>>
    /\ TreeUnchanged

ForEach(kind) ==
    LET r == for_each(packages, kind)
    IN  /\ op' = "for_each"
        /\ packages' = r.pkgs
        /\ calls' = [valid |-> TRUE, paths |-> r.acc.paths]
        /\ collected' = NoCollected
        /\ lockRet' = NoLock
        /\ hashFails' = {}
        /\ LoadUnchanged

Collect ==
    LET r == collect(packages)
    IN  /\ op' = "collect"
        /\ packages' = r.self
        /\ collected' = [valid |-> TRUE, pkgs |-> r.ret]
        /\ lockRet' = NoLock
        /\ hashFails' = {}
        /\ UNCHANGED calls
        /\ LoadUnchanged

Lock ==
    \E fails \in SUBSET (1..Size(packages)) :
        LET r == lock(packages, fails)
        IN  /\ op' = "lock"
            /\ packages' = r.self
            /\ lockRet' = [status |-> r.status, text |-> r.text, hashed |-> r.hashed]
            /\ hashFails' = fails
            /\ calls' = NoCalls
            /\ collected' = NoCollected
            /\ LoadUnchanged

NextLoad ==
    \/ New
    \/ FromJson
    \/ Drop

NextLock == Lock

Next ==
    \/ \E kind \in {"visit", "download"} : ForEach(kind)
    \/ Collect

SpecLoad == InitLoad /\ [][NextLoad]_vars

SpecLock == InitLock /\ [][NextLock]_vars

Spec == Init /\ [][Next]_vars

(***************************************************************************)
(* Vocabulary of the properties                                            *)
(***************************************************************************)
\* the paths of all nodes of a forest
RECURSIVE PathsOf(_, _)
PathsOf(pkgs, prefix) ==
    UNION {{Append(prefix, i)} \cup PathsOf(pkgs[i].dependencies, Append(prefix, i)) :
           i \in 1..Len(pkgs)}

\* the node a path leads to
RECURSIVE NodeAt(_, _)
NodeAt(pkgs, path) ==
    IF Len(path) = 1 THEN pkgs[path[1]]
    ELSE NodeAt(pkgs[path[1]].dependencies, Tail(path))

\* a is q itself or an ancestor of q
IsPrefixOrEqual(a, q) == Len(a) <= Len(q) /\ SubSeq(q, 1, Len(a)) = a

\* a and b have the same parent and a is stored before b
EarlierSibling(a, b) ==
    /\ Len(a) = Len(b)
    /\ SubSeq(a, 1, Len(a) - 1) = SubSeq(b, 1, Len(b) - 1)
    /\ a[Len(a)] < b[Len(b)]

\* the pre-order flatten of a forest, by structural recursion
RECURSIVE Flat(_)
Flat(pkgs) ==
    IF Len(pkgs) = 0 THEN <<>>
    ELSE <<Head(pkgs)>> \o Flat(Head(pkgs).dependencies) \o Flat(Tail(pkgs))

IsSorted(pkgs) == \A i, j \in 1..Len(pkgs) : i < j => ~PkgLess(pkgs[j], pkgs[i])

EntriesOf(pkgs) == {<<pkgs[i].name, pkgs[i].version>> : i \in 1..Len(pkgs)}

NeedsHash(p) == p.installed /\ p.integrity = EmptyString

FormatOrder == <<"hjson", "yaml", "toml">>

(***************************************************************************)
(* C1                                                                      *)
(***************************************************************************)
\* C1: for_each invokes the callback on every node of the forest exactly once,
\* a node before every node of its dependency subtree, siblings in their stored
\* order, and the whole subtree of a node before its next sibling.
C1_PreOrder ==
    calls.valid =>
        LET v == calls.paths
            all == PathsOf(packages, <<>>)
        IN  /\ Len(v) = Cardinality(all)
            /\ {v[i] : i \in 1..Len(v)} = all
            /\ \A i, j \in 1..Len(v) :
                /\ (v[i] # v[j] /\ IsPrefixOrEqual(v[i], v[j])) => i < j
                /\ EarlierSibling(v[i], v[j]) => i < j
                /\ (\E a \in all : IsPrefixOrEqual(a, v[i]) /\ EarlierSibling(a, v[j])) => i < j

C1_Witness ==
    /\ op = "for_each"
    /\ calls.valid
    /\ <<1, 1>> \in PathsOf(packages, <<>>)
    /\ <<2>> \in PathsOf(packages, <<>>)

(***************************************************************************)
(* C2                                                                      *)
(***************************************************************************)
\* C2: after construction by either entry point (new, from_json) the packages
\* are sorted by name, then version.
C2_SortedAfterConstruction ==
    status = "ok" => IsSorted(packages)

(***************************************************************************)
(* C3                                                                      *)
(***************************************************************************)
\* C3: when lock succeeds, its records are exactly the installed nodes of the
\* pre-order flatten, in flatten order, each with that node's name and version.
C3_LockRecords ==
    (op = "lock" /\ lockRet.status = "ok") =>
        LET want == SelectSeq(Flat(packages), LAMBDA p : p.installed)
        IN  /\ Len(lockRet.text) = Len(want)
            /\ \A k \in 1..Len(want) :
                /\ lockRet.text[k].name = want[k].name
                /\ lockRet.text[k].version = want[k].version

C3_Witness ==
    /\ op = "lock"
    /\ lockRet.status = "ok"
    /\ Len(packages) = 1
    /\ ~packages[1].installed
    /\ Len(packages[1].dependencies) = 1
    /\ packages[1].dependencies[1].installed
    /\ Len(lockRet.text) = 1

(***************************************************************************)
(* C4                                                                      *)
(***************************************************************************)
\* C4: if get_integrity fails for an installed entity whose integrity field is
\* empty, lock fails as a whole and returns no lockfile text.
C4_AllOrNothing ==
    (op = "lock" /\ \E k \in hashFails : NeedsHash(Flat(packages)[k])) =>
        /\ lockRet.status = "panic"
        /\ Len(lockRet.text) = 0

C4_Witness ==
    /\ op = "lock"
    /\ lockRet.status = "panic"
    /\ Len(lockRet.hashed) >= 2
    /\ lockRet.hashed[1] \notin hashFails

(***************************************************************************)
(* C5                                                                      *)
(***************************************************************************)
\* C5: on text no primary format accepts, new aborts and yields no ConfigFile;
\* from_json never aborts and answers text it cannot parse with an Err value.
C5_FatalVersusRecoverable ==
    /\ (op = "new" /\ \A f \in {"hjson", "yaml", "toml"} : ~contents[f].ok) =>
            (status = "panic" /\ packages = <<>>)
    /\ op = "from_json" =>
            /\ status # "panic"
            /\ ~contents["json"].ok => status = "err"

C5_Witness ==
    /\ op = "new"
    /\ \A f \in {"hjson", "yaml", "toml"} : ~contents[f].ok
    /\ status = "panic"

(***************************************************************************)
(* C6                                                                      *)
(***************************************************************************)
\* C6: new tries hjson, then yaml, then toml, a later format only after every
\* earlier one rejected, stops at the first that accepts and builds the
\* packages from that format's mapping.
C6_FormatPriority ==
    op = "new" =>
        LET n == Len(attempts)
        IN  /\ n >= 1
            /\ attempts = SubSeq(FormatOrder, 1, n)
            /\ \A i \in 1..(n - 1) : ~contents[attempts[i]].ok
            /\ status = "ok" <=> contents[attempts[n]].ok
            /\ status = "ok" =>
                /\ EntriesOf(packages) = contents[attempts[n]].packages
                /\ Len(packages) = Cardinality(contents[attempts[n]].packages)
            /\ status # "ok" => n = Len(FormatOrder)

C6_Witness ==
    /\ op = "new"
    /\ status = "ok"
    /\ attempts = <<"hjson", "yaml">>
    /\ contents["toml"].ok
    /\ contents["toml"].packages # contents["yaml"].packages
    /\ EntriesOf(packages) = contents["yaml"].packages

(***************************************************************************)
(* C7                                                                      *)
(***************************************************************************)
\* C7: two loads through new whose mappings have the same entries yield package
\* sequences equal in length, order and name@version form, whatever the
\* iteration order of the mapping and whichever format accepted.
C7_LoadDeterminism ==
    (op = "new" /\ status = "ok" /\ prev.valid /\ prev.entries = Accepted(contents)) =>
        /\ Len(packages) = Len(prev.packages)
        /\ \A i \in 1..Len(packages) : to_string(packages[i]) = to_string(prev.packages[i])
        /\ packages = prev.packages

C7_Witness ==
    /\ op = "new"
    /\ status = "ok"
    /\ prev.valid
    /\ prev.entries = Accepted(contents)
    /\ prev.attempts # attempts
    /\ Len(packages) >= 2

(***************************************************************************)
(* C8                                                                      *)
(***************************************************************************)
\* C8: on the same forest collect returns one copy of each node for_each
\* visits, in the order of the callback invocations, so both counts agree;
\* packages of equal name and version are kept once per occurrence.
C8_CollectMatchesForEach ==
    (calls.valid /\ collected.valid) =>
        /\ Len(collected.pkgs) = Len(calls.paths)
        /\ \A i \in 1..Len(calls.paths) :
              collected.pkgs[i] = NodeAt(packages, calls.paths[i])

C8_Witness ==
    /\ op = "collect"
    /\ calls.valid
    /\ collected.valid
    /\ Len(packages) = 2
    /\ Len(packages[1].dependencies) = 1
    /\ packages[1].dependencies[1].name = packages[2].name
    /\ packages[1].dependencies[1].version = packages[2].version
    /\ Len(collected.pkgs) = 3

(***************************************************************************)
(* C9                                                                      *)
(***************************************************************************)
\* C9: lock invokes get_integrity only for installed entities with an empty
\* integrity field, at most once each and in flatten order; a recorded
\* integrity is emitted unchanged; a computation that would fail for another
\* entity does not make lock fail.
C9_LazyIntegrity ==
    op = "lock" =>
        LET flat == Flat(packages)
            h == lockRet.hashed
            want == SelectSeq(flat, LAMBDA p : p.installed)
        IN  /\ \A i \in 1..Len(h) : NeedsHash(flat[h[i]])
            /\ \A i, j \in 1..Len(h) : i < j => h[i] < h[j]
            /\ (\A k \in hashFails : ~NeedsHash(flat[k])) => lockRet.status = "ok"
            /\ lockRet.status = "ok" =>
                /\ {h[i] : i \in 1..Len(h)} = {k \in 1..Len(flat) : NeedsHash(flat[k])}
                /\ \A k \in 1..Len(want) :
                      lockRet.text[k].integrity =
                          IF want[k].integrity = EmptyString
                          THEN get_integrity(want[k]) ELSE want[k].integrity

C9_Witness ==
    /\ op = "lock"
    /\ lockRet.status = "ok"
    /\ \E k \in hashFails : ~Flat(packages)[k].installed
    /\ Len(lockRet.hashed) = 1

(***************************************************************************)
(* C10                                                                     *)
(***************************************************************************)
\* C10: lock leaves the forest of the ConfigFile as it was, whether it succeeds
\* or fails; a computed integrity is not written back, so locking again under
\* the same conditions computes it again.
C10_LockLeavesForest ==
    [][op' = "lock" =>
         /\ packages' = packages
         /\ (op = "lock" /\ hashFails' = hashFails) => lockRet' = lockRet]_vars

C10_Witness ==
    /\ op = "lock"
    /\ lockRet.status = "ok"
    /\ Len(lockRet.hashed) >= 1
    /\ Flat(packages)[lockRet.hashed[1]].integrity = EmptyString
    /\ lockRet.text[1].integrity # EmptyString

====
